---- MODULE Spec2Model ----
(***************************************************************************)
(* A model of the diy-wiki backend (src/server.js): pages are text files   *)
(* in the directory DATA_DIR, served by five request handlers.             *)
(*                                                                         *)
(* A string is a sequence of characters; a character is a one-element      *)
(* TLA+ string, except "U+00E9" (e with acute accent, two bytes in UTF-8)  *)
(* and "U+FFFD" (the replacement character a UTF-8 decoder produces).      *)
(* A path is kept in the normal form path.join produces: the sequence of   *)
(* its segments, relative to the working directory of the process.         *)
(* The file system is case-sensitive (POSIX).                              *)
(***************************************************************************)
EXTENDS Integers, Sequences, FiniteSets, TLC

VARIABLES dataDirExists, files, resp, written, acked

vars == <<dataDirExists, files, resp, written, acked>>

-----------------------------------------------------------------------------
(* Bounds and input domains                                                *)

\* The storage holds at most MaxPages files (a Put that would create one
\* more is not issued).
MaxPages == 2

\* The slugs requests carry: plain, upper-case, one naming the same file as
\* "a" through a "." segment, one holding ".md" inside, one leaving the data
\* directory, one naming a directory that does not exist.
Slugs ==
  { <<"a">>, <<"b">>, <<"A">>,
    <<".", "/", "a">>,
    <<".", "m", "d", "a">>,
    <<".", ".", "/", "a">>,
    <<"a", "/", "b">> }

\* The body texts Put requests carry.
Bodies ==
  { << >>,
    <<"#", "a">>,
    <<"#", "a", "b">>,
    <<"#", "a", "U+00E9", "#", "a">>,
    <<"#", "b", "#", "a">>,
    <<"#", "U+00E9">> }

\* The tag names Pages-for-tag requests carry.
TagParams == { <<"a">>, <<"a", "b">>, <<"b">> }

-----------------------------------------------------------------------------
(* Strings                                                                 *)

Range(s) == { s[i] : i \in DOMAIN s }

\* Whether needle occurs in str at position i.
OccursAt(str, needle, i) ==
  /\ i >= 1
  /\ i + Len(needle) - 1 <= Len(str)
  /\ SubSeq(str, i, i + Len(needle) - 1) = needle

\* String.prototype.indexOf: the first position of needle (1-based), 0 if
\* there is none (JavaScript: -1).
RECURSIVE IndexFrom(_, _, _)
IndexFrom(str, needle, i) ==
  IF i + Len(needle) - 1 > Len(str) THEN 0
  ELSE IF OccursAt(str, needle, i) THEN i
  ELSE IndexFrom(str, needle, i + 1)

IndexOf(str, needle) == IndexFrom(str, needle, 1)

\* String.prototype.replace with a string pattern: only the first
\* occurrence is replaced.
ReplaceFirst(str, pat, by) ==
  LET i == IndexOf(str, pat)
  IN IF i = 0 THEN str
     ELSE SubSeq(str, 1, i - 1) \o by \o SubSeq(str, i + Len(pat), Len(str))

LowerChar(c) == IF c = "A" THEN "a" ELSE IF c = "B" THEN "b" ELSE c

\* String.prototype.toLowerCase.
toLowerCase(str) == [i \in DOMAIN str |-> LowerChar(str[i])]

\* \w of a JavaScript regular expression: ASCII letters, digits, underscore.
WordChars == {"a", "b", "d", "e", "f", "i", "m", "n", "u", "z", "A", "B", "_", "0"}

IsWordChar(c) == c \in WordChars

\* The end of the longest run of word characters starting at position i
\* (i - 1 if str[i] is no word character).
RECURSIVE WordRunEnd(_, _)
WordRunEnd(str, i) ==
  IF i <= Len(str) /\ IsWordChar(str[i]) THEN WordRunEnd(str, i + 1) ELSE i - 1

\* str.match(TAG_RE) with TAG_RE = /#\w+/g: every non-overlapping match,
\* left to right, each greedy; the empty sequence stands for null.
RECURSIVE MatchFrom(_, _)
MatchFrom(str, i) ==
  IF i > Len(str) THEN << >>
  ELSE IF str[i] = "#" /\ WordRunEnd(str, i + 1) > i
       THEN <<SubSeq(str, i, WordRunEnd(str, i + 1))>>
              \o MatchFrom(str, WordRunEnd(str, i + 1) + 1)
       ELSE MatchFrom(str, i + 1)

MatchTagRe(str) == MatchFrom(str, 1)

-----------------------------------------------------------------------------
(* Paths                                                                   *)

DATA_DIR == <<"d", "a", "t", "a">>

SEP == "/"

\* str.split('/').
RECURSIVE Split(_)
Split(str) ==
  LET i == IndexOf(str, <<SEP>>)
  IN IF i = 0 THEN <<str>>
     ELSE <<SubSeq(str, 1, i - 1)>> \o Split(SubSeq(str, i + 1, Len(str)))

DotDot == <<".", ".">>

\* path.normalize of a relative path, segment by segment: "" and "." are
\* dropped, ".." removes the segment before it, or stays when there is none.
RECURSIVE NormalizeSegs(_, _)
NormalizeSegs(segs, acc) ==
  IF segs = << >> THEN acc
  ELSE LET s == Head(segs)
           rest == Tail(segs)
       IN IF s = << >> \/ s = <<".">> THEN NormalizeSegs(rest, acc)
          ELSE IF s = DotDot
               THEN IF acc # << >> /\ acc[Len(acc)] # DotDot
                    THEN NormalizeSegs(rest, SubSeq(acc, 1, Len(acc) - 1))
                    ELSE NormalizeSegs(rest, Append(acc, s))
               ELSE NormalizeSegs(rest, Append(acc, s))

\* path.join(a, b).
PathJoin(a, b) == NormalizeSegs(Split(a \o <<SEP>> \o b), << >>)

MD == <<".", "m", "d">>

slugToPath(slug) == PathJoin(DATA_DIR, slug \o MD)

DataPath == <<DATA_DIR>>

\* slugToPath on the slugs of the requests, computed once.
PathTable == [slug \in Slugs |-> slugToPath(slug)]

\* The file names the handlers can create in the data directory.
EntryNames ==
  { PathTable[slug][2] :
      slug \in { t \in Slugs : Len(PathTable[t]) = 2 /\ PathTable[t][1] = DATA_DIR } }

-----------------------------------------------------------------------------
(* UTF-8                                                                   *)

Utf8Of(c) ==
  CASE c = "#" -> <<35>>
    [] c = "a" -> <<97>>
    [] c = "b" -> <<98>>
    [] c = "d" -> <<100>>
    [] c = "e" -> <<101>>
    [] c = "f" -> <<102>>
    [] c = "i" -> <<105>>
    [] c = "n" -> <<110>>
    [] c = "u" -> <<117>>
    [] c = "U+00E9" -> <<195, 169>>
    [] OTHER -> <<239, 191, 189>>

AsciiChars == {"#", "a", "b", "d", "e", "f", "i", "n", "u"}

\* Buffer.from(str, 'utf8').
RECURSIVE Utf8Encode(_)
Utf8Encode(str) ==
  IF str = << >> THEN << >> ELSE Utf8Of(Head(str)) \o Utf8Encode(Tail(str))

\* buffer.toString('utf8'): a byte sequence that is no character decodes to
\* U+FFFD.
RECURSIVE Utf8Decode(_)
Utf8Decode(bytes) ==
  IF bytes = << >> THEN << >>
  ELSE IF bytes[1] < 128
       THEN (IF \E c \in AsciiChars : Utf8Of(c) = <<bytes[1]>>
             THEN <<CHOOSE c \in AsciiChars : Utf8Of(c) = <<bytes[1]>> >>
             ELSE <<"U+FFFD">>) \o Utf8Decode(Tail(bytes))
       ELSE IF Len(bytes) >= 2 /\ bytes[1] = 195 /\ bytes[2] = 169
            THEN <<"U+00E9">> \o Utf8Decode(SubSeq(bytes, 3, Len(bytes)))
            ELSE IF Len(bytes) >= 3 /\ SubSeq(bytes, 1, 3) = <<239, 191, 189>>
                 THEN <<"U+FFFD">> \o Utf8Decode(SubSeq(bytes, 4, Len(bytes)))
                 ELSE <<"U+FFFD">> \o Utf8Decode(Tail(bytes))

-----------------------------------------------------------------------------
(* The file system                                                         *)

\* The result of a call that may throw.
Returned(v) == [threw |-> FALSE, value |-> v]

Thrown == [threw |-> TRUE, value |-> << >>]

AllDotDot(dir) == \A i \in DOMAIN dir : dir[i] = DotDot

\* The directories that exist: the working directory and those above it,
\* and the data directory when present. No handler creates a directory.
DirExists(dir) ==
  \/ AllDotDot(dir)
  \/ dir = DataPath /\ dataDirExists

ParentOf(path) == SubSeq(path, 1, Len(path) - 1)

\* A read that takes an absent file for an empty one.
readFileOrEmpty(filename) ==
  IF filename \in DOMAIN files
  THEN Returned(Utf8Decode(files[filename]))
  ELSE Returned(<< >>)

\* readFile(filename, 'utf-8') and fs.readFileSync(filename, 'utf-8'): the
\* decoded content, or an exception when there is no such file.
readFile(filename) ==
  IF filename \in DOMAIN files
  THEN Returned(Utf8Decode(files[filename]))
  ELSE Thrown

\* A write with flag 'a': the data is appended to what the file holds.
StoreFileAppend(filename, data) ==
  [p \in DOMAIN files \cup {filename} |->
     IF p = filename
     THEN (IF p \in DOMAIN files THEN files[p] ELSE << >>) \o Utf8Encode(data)
     ELSE files[p]]

\* The files after fs.writeFile stored data under filename: created if
\* absent, else replaced (flag 'w').
StoreFile(filename, data) ==
  [p \in DOMAIN files \cup {filename} |->
     IF p = filename THEN Utf8Encode(data) ELSE files[p]]

\* What is passed as the data of writeFile: a text, or undefined.
Text(t) == [defined |-> TRUE, text |-> t]

Undefined == [defined |-> FALSE, text |-> << >>]

UndefinedAsText == <<"u", "n", "d", "e", "f", "i", "n", "e", "d">>

\* writeFile(filename, content, 'utf8'): the new files, or an exception when
\* the directory of filename does not exist. Data that is undefined is
\* written as the text "undefined" by a runtime that coerces it (coerces =
\* TRUE, Node before 14) and rejected with a TypeError by a later one.
writeFile(filename, content, coerces) ==
  IF ~content.defined /\ ~coerces THEN Thrown
  ELSE IF ~DirExists(ParentOf(filename)) THEN Thrown
  ELSE Returned(StoreFile(filename,
                          IF content.defined THEN content.text
                          ELSE UndefinedAsText))

\* The names readdir(DATA_DIR) finds.
DataEntries ==
  { p[2] : p \in { q \in DOMAIN files : Len(q) = 2 /\ q[1] = DATA_DIR } }

\* The orders in which readdir may return them (the order is the file
\* system's).
Listings(entries) ==
  { f \in [1..Cardinality(entries) -> entries] :
      \A i, j \in DOMAIN f : f[i] = f[j] => i = j }

-----------------------------------------------------------------------------
(* Responses                                                               *)

NoPayload ==
  [status |-> "none", message |-> "", body |-> << >>, pages |-> << >>,
   tags |-> << >>, tag |-> << >>]

OkPayload == [NoPayload EXCEPT !.status = "ok"]

ErrorPayload(msg) == [NoPayload EXCEPT !.status = "error", !.message = msg]

\* res.json(payload) / res.send(payload): one response is sent.
Sent(payload) == [sent |-> 1, payload |-> payload]

\* The handler ended by an exception no catch block took: nothing is sent.
Escaped == [sent |-> 0, payload |-> NoPayload]

\* The last request served and the answer to it.
Exchange(op, slug, tag, listing, reply) ==
  [op |-> op, slug |-> slug, tag |-> tag, listing |-> listing,
   sent |-> reply.sent, payload |-> reply.payload]

NoExchange == Exchange("none", << >>, << >>, << >>, Escaped)

\* No request is being answered.
Idle == resp = NoExchange

\* err.message of a failed readdir or readFileSync.
ENOENT == "ENOENT: no such file or directory"

-----------------------------------------------------------------------------
(* GET /api/page/:slug                                                     *)

getPageReply(read) ==
  IF read.threw
  THEN Sent(ErrorPayload("Page does not exist."))
  ELSE Sent([OkPayload EXCEPT !.body = read.value])

GetPage(slug) ==
  LET filename == PathTable[slug]
  IN /\ Idle
     /\ resp' = Exchange("get", slug, << >>, << >>,
                         getPageReply(readFile(filename)))
     /\ UNCHANGED <<dataDirExists, files, written, acked>>

-----------------------------------------------------------------------------
(* POST /api/page/:slug                                                    *)

\* A req.body that is an object, with or without a body field.
Parsed(hasBody, body) == [parsed |-> TRUE, hasBody |-> hasBody, body |-> body]

\* A req.body that is undefined.
Unparsed == [parsed |-> FALSE, hasBody |-> FALSE, body |-> << >>]

\* req.body without a parser that fills it: undefined when the request
\* carries no JSON.
ReqBodiesUnfilled == {Unparsed} \cup { Parsed(TRUE, b) : b \in Bodies }

\* What app.use(bodyParser.json()) leaves in req.body: always an object, the
\* parsed JSON or {} when the request carries none.
ReqBodies == {Parsed(FALSE, << >>)} \cup { Parsed(TRUE, b) : b \in Bodies }

\* req.body.body: reading a field of undefined throws a TypeError.
bodyField(reqBody) ==
  IF ~reqBody.parsed THEN Thrown
  ELSE Returned(IF reqBody.hasBody THEN Text(reqBody.body) ELSE Undefined)

postPageReply(write) ==
  IF write.threw
  THEN Sent(ErrorPayload("Could not write page."))
  ELSE Sent(OkPayload)

\* f without the key k.
Without(f, k) == [x \in DOMAIN f \ {k} |-> f[x]]

\* f with k mapped to v.
With(f, k, v) == [x \in DOMAIN f \cup {k} |-> IF x = k THEN v ELSE f[x]]

\* written: for each file, the body text of the last Put that stored it and
\* answered ok (a Put without body text leaves no record).
Recorded(f, k, content) ==
  IF content.defined THEN With(f, k, content.text) ELSE Without(f, k)

\* The handler after line 58 returned content.
PostWrite(slug, content, coerces) ==
  LET filename == PathTable[slug]
      write == writeFile(filename, content, coerces)
  IN /\ Idle
     /\ IF write.threw \/ filename \in DOMAIN files THEN TRUE
        ELSE Cardinality(DOMAIN files) < MaxPages
     /\ files' = IF write.threw THEN files ELSE write.value
     /\ resp' = Exchange("post", slug, << >>, << >>, postPageReply(write))
     /\ written' = IF write.threw THEN written
                   ELSE Recorded(written, filename, content)
     /\ acked' = IF write.threw THEN acked ELSE acked \cup {slug}
     /\ UNCHANGED dataDirExists

\* Line 58 is outside the try block: an exception there ends the handler
\* with no response.
PostPage(slug, reqBody, coerces) ==
  LET content == bodyField(reqBody)
  IN IF content.threw
     THEN /\ Idle
          /\ resp' = Exchange("post", slug, << >>, << >>, Escaped)
          /\ UNCHANGED <<dataDirExists, files, written, acked>>
     ELSE PostWrite(slug, content.value, coerces)

-----------------------------------------------------------------------------
(* GET /api/pages/all                                                      *)

\* readDir(DATA_DIR): the results it may give.
readDir ==
  IF dataDirExists
  THEN { Returned(l) : l \in Listings(DataEntries) }
  ELSE {Thrown}

\* page.replace('.md', '').
stripMd(page) == ReplaceFirst(page, MD, << >>)

\* stripMd on the names of the data directory, computed once.
StripTable == [file \in EntryNames |-> stripMd(file)]

listPagesReply(pagesFetch) ==
  IF pagesFetch.threw
  THEN Sent(ErrorPayload(ENOENT))
  ELSE Sent([OkPayload EXCEPT
               !.pages = [i \in DOMAIN pagesFetch.value |->
                            StripTable[pagesFetch.value[i]]]])

ListOf(pagesFetch) == IF pagesFetch.threw THEN << >> ELSE pagesFetch.value

ListPages ==
  \E pagesFetch \in readDir :
    /\ Idle
    /\ resp' = Exchange("list", << >>, << >>, ListOf(pagesFetch),
                        listPagesReply(pagesFetch))
    /\ UNCHANGED <<dataDirExists, files, written, acked>>

-----------------------------------------------------------------------------
(* GET /api/tags/all                                                       *)

\* The file a tag handler reads for a directory entry.
scanPath(file) == slugToPath(toLowerCase(stripMd(file)))

\* scanPath on the names of the data directory, computed once.
ScanTable == [file \in EntryNames |-> scanPath(file)]

\* A push without the includes test.
pushTagAlways(tagsNames, item) ==
  Append(tagsNames, ReplaceFirst(item, <<"#">>, << >>))

\* if (!tagsNames.includes(name)) tagsNames.push(name), name being
\* item.replace('#', '').
pushTag(tagsNames, item) ==
  LET name == ReplaceFirst(item, <<"#">>, << >>)
  IN IF name \in Range(tagsNames) THEN tagsNames ELSE Append(tagsNames, name)

\* tagList.forEach(...).
RECURSIVE pushTags(_, _)
pushTags(tagsNames, tagList) ==
  IF tagList = << >> THEN tagsNames
  ELSE pushTags(pushTag(tagsNames, Head(tagList)), Tail(tagList))

\* pagesFetch.forEach(...) of the tags handler: the names collected, or the
\* exception of the first read that fails.
RECURSIVE scanTags(_, _)
scanTags(pagesFetch, tagsNames) ==
  IF pagesFetch = << >> THEN Returned(tagsNames)
  ELSE LET fileContent == readFile(ScanTable[Head(pagesFetch)])
       IN IF fileContent.threw THEN Thrown
          ELSE IF MatchTagRe(fileContent.value) = << >>
               THEN scanTags(Tail(pagesFetch), tagsNames)
               ELSE scanTags(Tail(pagesFetch),
                             pushTags(tagsNames, MatchTagRe(fileContent.value)))

allTagsReply(pagesFetch) ==
  IF pagesFetch.threw THEN Sent(ErrorPayload(ENOENT))
  ELSE LET scan == scanTags(pagesFetch.value, << >>)
       IN IF scan.threw THEN Sent(ErrorPayload(ENOENT))
          ELSE Sent([OkPayload EXCEPT !.tags = scan.value])

AllTags ==
  \E pagesFetch \in readDir :
    /\ Idle
    /\ resp' = Exchange("tags", << >>, << >>, ListOf(pagesFetch),
                        allTagsReply(pagesFetch))
    /\ UNCHANGED <<dataDirExists, files, written, acked>>

-----------------------------------------------------------------------------
(* GET /api/tags/:tag                                                      *)

\* fileContent.indexOf('#' + tagParam) >= 0.
hasTag(fileContent, tagParam) == IndexOf(fileContent, <<"#">> \o tagParam) > 0

\* pagesFetch.forEach(...) of the tag handler.
RECURSIVE scanPages(_, _, _)
scanPages(pagesFetch, tagParam, listFilesTags) ==
  IF pagesFetch = << >> THEN Returned(listFilesTags)
  ELSE LET file == Head(pagesFetch)
           fileContent == readFile(ScanTable[file])
       IN IF fileContent.threw THEN Thrown
          ELSE IF hasTag(fileContent.value, tagParam)
               THEN scanPages(Tail(pagesFetch), tagParam,
                              Append(listFilesTags, StripTable[file]))
               ELSE scanPages(Tail(pagesFetch), tagParam, listFilesTags)

pagesForTagReply(pagesFetch, tagParam) ==
  IF pagesFetch.threw THEN Sent(ErrorPayload(ENOENT))
  ELSE LET scan == scanPages(pagesFetch.value, tagParam, << >>)
       IN IF scan.threw THEN Sent(ErrorPayload(ENOENT))
          ELSE Sent([OkPayload EXCEPT !.tag = tagParam, !.pages = scan.value])

PagesForTag(tagParam) ==
  \E pagesFetch \in readDir :
    /\ Idle
    /\ resp' = Exchange("tag", << >>, tagParam, ListOf(pagesFetch),
                        pagesForTagReply(pagesFetch, tagParam))
    /\ UNCHANGED <<dataDirExists, files, written, acked>>

-----------------------------------------------------------------------------
(* The server                                                              *)

NoFiles == [p \in {} |-> << >>]

Init ==
  /\ dataDirExists \in BOOLEAN
  /\ files = NoFiles
  /\ resp = NoExchange
  /\ written = NoFiles
  /\ acked = {}

\* The response reaches the client; the next request is served after it.
Deliver ==
  /\ ~Idle
  /\ resp' = NoExchange
  /\ UNCHANGED <<dataDirExists, files, written, acked>>

Next ==
  \/ \E slug \in Slugs : GetPage(slug)
  \/ \E slug \in Slugs, reqBody \in ReqBodies :
       \E coerces \in (IF reqBody.hasBody THEN {TRUE} ELSE BOOLEAN) :
         PostPage(slug, reqBody, coerces)
  \/ ListPages
  \/ AllTags
  \/ \E tagParam \in TagParams : PagesForTag(tagParam)
  \/ Deliver

Spec == Init /\ [][Next]_vars

-----------------------------------------------------------------------------
(* What the claims speak of                                                *)

IsOk(x) == x.sent = 1 /\ x.payload.status = "ok"

NoDuplicates(seq) == \A i, j \in DOMAIN seq : seq[i] = seq[j] => i = j

IsPrefix(p, str) == OccursAt(str, p, 1)

\* The path of the page a listed name stands for: the slug is the name
\* without its extension.
CatalogTable == [file \in EntryNames |-> slugToPath(stripMd(file))]

\* The body of the page a listed name stands for.
PageBody(file) == readFile(CatalogTable[file])

\* The canonical tag names of a body, one per token, in order of occurrence.
RECURSIVE TagNamesOf(_)
TagNamesOf(tokens) ==
  IF tokens = << >> THEN << >>
  ELSE <<Tail(Head(tokens))>> \o TagNamesOf(Tail(tokens))

\* seq without the elements that occurred before, in first-seen order.
RECURSIVE FirstSeen(_, _)
FirstSeen(seq, seen) ==
  IF seq = << >> THEN << >>
  ELSE IF Head(seq) \in seen THEN FirstSeen(Tail(seq), seen)
  ELSE <<Head(seq)>> \o FirstSeen(Tail(seq), seen \cup {Head(seq)})

\* The tag names of the pages of a catalog, page after page.
RECURSIVE CatalogTagNames(_)
CatalogTagNames(listing) ==
  IF listing = << >> THEN << >>
  ELSE TagNamesOf(MatchTagRe(PageBody(Head(listing)).value))
         \o CatalogTagNames(Tail(listing))

CatalogReadable(listing) ==
  \A i \in DOMAIN listing : ~PageBody(listing[i]).threw

\* The slugs of a catalog whose own body contains '#' + tag, in its order.
RECURSIVE CatalogPagesWith(_, _)
CatalogPagesWith(listing, tag) ==
  IF listing = << >> THEN << >>
  ELSE (IF IndexOf(PageBody(Head(listing)).value, <<"#">> \o tag) > 0
        THEN <<StripTable[Head(listing)]>> ELSE << >>)
         \o CatalogPagesWith(Tail(listing), tag)

SlugA == <<"a">>

SlugDotA == <<".", "/", "a">>

-----------------------------------------------------------------------------
C2_ReadAbsent ==
  [][(resp'.op = "get" /\ PathTable[resp'.slug] \notin DOMAIN files)
       => /\ resp'.sent = 1
          /\ resp'.payload = ErrorPayload("Page does not exist.")
          /\ files' = files
          /\ dataDirExists' = dataDirExists]_vars

\* A Get of a never-written slug answered with the error, other pages
\* being stored.
C2_Witness ==
  /\ resp.op = "get"
  /\ resp.slug \notin acked
  /\ PathTable[resp.slug] \notin DOMAIN files
  /\ DOMAIN files # {}
  /\ resp.payload.status = "error"

(* C3: the tags List tags returns hold no name twice.                      *)
C3_TagsDistinct ==
  resp.op = "tags" => NoDuplicates(resp.payload.tags)

\* An ok List tags over two pages that share a tag, one of them holding it
\* twice.
C3_Witness ==
  /\ resp.op = "tags"
  /\ IsOk(resp)
  /\ Len(resp.listing) = 2
  /\ \A i \in DOMAIN resp.listing :
       <<"#", "a">> \in Range(MatchTagRe(PageBody(resp.listing[i]).value))
  /\ \E i \in DOMAIN resp.listing :
       ~NoDuplicates(MatchTagRe(PageBody(resp.listing[i]).value))
  /\ resp.payload.tags = << <<"a">> >>

(* C4: when every page of the catalog is readable, List tags answers ok    *)
(* with exactly the tag names of the bodies of the catalog's pages, in     *)
(* first-seen order following the catalog (none for a store without        *)
(* pages).                                                                 *)
C4_TagsOfCatalog ==
  (resp.op = "tags" /\ dataDirExists /\ CatalogReadable(resp.listing))
    => /\ IsOk(resp)
       /\ resp.payload.tags = FirstSeen(CatalogTagNames(resp.listing), {})

(* C5: Pages for tag answers ok with exactly the slugs of the catalog      *)
(* whose own body contains '#' + tag, in catalog order, upper-case slugs   *)
(* included.                                                               *)
C5_PagesOfTag ==
  (resp.op = "tag" /\ dataDirExists)
    => /\ IsOk(resp)
       /\ resp.payload.pages = CatalogPagesWith(resp.listing, resp.tag)

(* C6: Pages for tag with a tag no page body contains answers ok with no   *)
(* pages, never an error, whatever pages Put page stored.                  *)
C6_UnmatchedTag ==
  (/\ resp.op = "tag"
   /\ dataDirExists
   /\ \A p \in DOMAIN files :
        IndexOf(Utf8Decode(files[p]), <<"#">> \o resp.tag) = 0)
    => /\ IsOk(resp)
       /\ resp.payload.pages = << >>

(* C7: once Put page answered ok for a slug, every List pages answers ok   *)
(* with pages that contain that very slug.                                 *)
C7_ListedAfterWrite ==
  (resp.op = "list" /\ dataDirExists)
    => \A slug \in acked :
         IsOk(resp) /\ slug \in Range(resp.payload.pages)

\* What Get page would read for a slug.
Stored(fs, slug) ==
  IF PathTable[slug] \in DOMAIN fs
  THEN Returned(Utf8Decode(fs[PathTable[slug]]))
  ELSE Thrown

(* C8: a Put page that answers ok stores its body under its slug and       *)
(* leaves the stored content of every other slug written before as it      *)
(* was, so that after Puts to distinct slugs each holds its own body.      *)
C8_DistinctSlugs ==
  [][(resp'.op = "post" /\ IsOk(resp'))
       => \A slug \in acked \ {resp'.slug} :
            Stored(files', slug) = Stored(files, slug)]_vars

C10_TagOperationsAgree ==
  /\ (resp.op = "tags" /\ IsOk(resp))
       => \A t \in Range(resp.payload.tags) :
            LET scan == scanPages(resp.listing, t, << >>)
            IN /\ ~scan.threw
               /\ scan.value # << >>
               /\ \A i \in DOMAIN resp.listing :
                    (/\ ~PageBody(resp.listing[i]).threw
                     /\ t \in Range(TagNamesOf(MatchTagRe(
                                 PageBody(resp.listing[i]).value))))
                      => StripTable[resp.listing[i]] \in Range(scan.value)
  /\ (resp.op = "tag" /\ IsOk(resp))
       => \A i \in DOMAIN resp.listing :
            StripTable[resp.listing[i]] \in Range(resp.payload.pages)
              => /\ ~PageBody(resp.listing[i]).threw
                 /\ \E name \in Range(TagNamesOf(MatchTagRe(
                               PageBody(resp.listing[i]).value))) :
                      IsPrefix(resp.tag, name)

====
